---- MODULE Spec2Model ----
(***************************************************************************)
(* A model of pylgrams' mzML reader, src/src/pylgrams/grabMzmlFunctions.py *)
(*                                                                         *)
(* One behaviour is one call grabMzmlData(filename, grab_what): the parsed *)
(* document and grab_what are drawn in Init, and each action is one step   *)
(* of the function body (metadata, then one "if ... in grab_what" block    *)
(* per output, then the return).  An exception raised anywhere ends the    *)
(* call: pc = "raised", err names the exception and the step it was raised *)
(* in, and nothing is returned.                                            *)
(*                                                                         *)
(* The document is the part of the XML tree the xpath queries read:        *)
(*   spectra        the <spectrum> elements in document order, each with   *)
(*     level        value of its cvParam "ms level"                        *)
(*     rt           its scanList/scan cvParams "scan start time"           *)
(*                  (value, unitName), in order                            *)
(*     bpi, tic     values of its cvParams "base peak intensity" and       *)
(*                  "total ion current"                                    *)
(*     premz, volt  values of its precursor "selected ion m/z" and         *)
(*                  "collision energy" cvParams                            *)
(*     mzbin,intbin the <binary> texts of binaryDataArray[1] and [2]; a    *)
(*                  text is given by the bytes that base64-decoding and    *)
(*                  (when declared) inflating it yields; <<>> is an empty  *)
(*                  text                                                   *)
(*   chromatograms  number of <chromatogram> elements                      *)
(*   compr, mzbits, intbits  the names of the cvParams with accession      *)
(*                  MS:1000574/MS:1000576, MS:1000523 and MS:1000521, in   *)
(*                  document order                                         *)
(* Text that the code parses (bit-width labels, grab_what given as a       *)
(* string) is a sequence of one-character strings.  A decoded number is    *)
(* the pair of its struct format and the bytes it was read from.           *)
(***************************************************************************)
EXTENDS Integers, Sequences, FiniteSets, TLC

VARIABLES xml_data, grab_what, pc, file_metadata, output_data, err

vars == <<xml_data, grab_what, pc, file_metadata, output_data, err>>

(***************************************************************************)
(* Bounds of the model                                                     *)
(***************************************************************************)
MaxSpectra == 2
MaxPeaks == 2
MaxBytes == 16

(***************************************************************************)
(* Results of a Python call: a value, or a raised exception                *)
(***************************************************************************)
Ok(v) == [ok |-> TRUE, val |-> v, exc |-> "none"]

Raise(e) == [ok |-> FALSE, val |-> <<>>, exc |-> e]

(***************************************************************************)
(* List helpers                                                            *)
(***************************************************************************)
RECURSIVE Flatten(_)
Flatten(ss) == IF ss = <<>> THEN <<>> ELSE Head(ss) \o Flatten(Tail(ss))

RECURSIVE SumSeq(_)
SumSeq(s) == IF s = <<>> THEN 0 ELSE Head(s) + SumSeq(Tail(s))

Map(s, F(_)) == [i \in 1..Len(s) |-> F(s[i])]

Replicate(v, n) == [i \in 1..n |-> v]

Min(a, b) == IF a <= b THEN a ELSE b

\* the first exception of a list of results, in order
FirstError(rs) ==
    LET bad == {i \in 1..Len(rs) : ~rs[i].ok}
    IN  rs[CHOOSE i \in bad : \A j \in bad : i <= j].exc

(***************************************************************************)
(* Text: str.split("-")[0], int(text), "x in text"                         *)
(***************************************************************************)
Digits == <<"0", "1", "2", "3", "4", "5", "6", "7", "8", "9">>

DigitValue(c) == (CHOOSE d \in 1..Len(Digits) : Digits[d] = c) - 1

IsDigit(c) == \E d \in 1..Len(Digits) : Digits[d] = c

\* text.split(sep)[0]: the text before the first sep, the whole text without one
SplitFirst(text, sep) ==
    LET at == {i \in 1..Len(text) : text[i] = sep}
    IN  IF at = {} THEN text
        ELSE SubSeq(text, 1, (CHOOSE i \in at : \A j \in at : i <= j) - 1)

RECURSIVE DecimalValue(_)
DecimalValue(text) ==
    IF text = <<>> THEN 0
    ELSE 10 * DecimalValue(SubSeq(text, 1, Len(text) - 1)) + DigitValue(text[Len(text)])

\* int(text) on a text of decimal digits; anything else raises ValueError
ParseInt(text) ==
    IF text # <<>> /\ \A i \in 1..Len(text) : IsDigit(text[i])
    THEN Ok(DecimalValue(text))
    ELSE Raise("ValueError")

\* needle in text, for two str: needle is a substring of text
IsSubstring(needle, text) ==
    \E i \in 0..(Len(text) - Len(needle)) : SubSeq(text, i + 1, i + Len(needle)) = needle

(***************************************************************************)
(* grab_what is a list of output names or one str                          *)
(***************************************************************************)
MS1Name == <<"M", "S", "1">>

MS2Name == <<"M", "S", "2">>

BPCName == <<"B", "P", "C">>

TICName == <<"T", "I", "C">>

Everything == <<"e", "v", "e", "r", "y", "t", "h", "i", "n", "g">>

OutputNames == {MS1Name, MS2Name, BPCName, TICName}

ListOf(names) == [kind |-> "list", items |-> names]

StrOf(text) == [kind |-> "str", items |-> text]

\* name in grab_what: membership in a list, substring of a str
In(name, what) ==
    IF what.kind = "list" THEN name \in what.items ELSE IsSubstring(name, what.items)

(***************************************************************************)
(* grabMzmlEncodingData                                                    *)
(***************************************************************************)
Label64 == <<"6", "4", "-", "b", "i", "t", " ", "f", "l", "o", "a", "t">>

Label32 == <<"3", "2", "-", "b", "i", "t", " ", "f", "l", "o", "a", "t">>

LabelBad == <<"f", "l", "o", "a", "t", "-", "6", "4">>

\* the dict of lines 126-131
ComprTable == [n \in {"zlib", "zlib compression", "no compression", "none"} |->
                 IF n \in {"zlib", "zlib compression"} THEN "gzip" ELSE "none"]

\* int(name.split("-")[0]) / 8: the float bits/8, kept as the fraction
BitsToPrecision(name) ==
    LET bits == ParseInt(SplitFirst(name, "-"))
    IN  IF bits.ok THEN Ok([num |-> bits.val, den |-> 8]) ELSE bits

\* math.isnan of the quotient of two integers
IsNan(x) == FALSE

\* int(x) of a non-negative float
ToInt(x) == x.num \div x.den

grabMzmlEncodingData(doc) ==
    IF doc.spectra = <<>> /\ doc.chromatograms = 0 THEN Raise("ValueError")
    ELSE IF doc.compr = <<>> THEN Raise("IndexError")
    ELSE IF doc.compr[1] \notin DOMAIN ComprTable THEN Raise("KeyError")
    ELSE IF doc.mzbits = <<>> THEN Raise("IndexError")
    ELSE
      LET compr == ComprTable[doc.compr[1]]
          mzp == BitsToPrecision(doc.mzbits[1])
      IN  IF ~mzp.ok THEN mzp
          ELSE
            LET intp == IF doc.intbits # <<>> THEN BitsToPrecision(doc.intbits[1])
                        ELSE mzp
            IN  IF ~intp.ok THEN intp
                ELSE
                  LET mz_precision == IF ~IsNan(mzp.val) THEN mzp.val ELSE intp.val
                      int_precision == IF ~IsNan(intp.val) THEN intp.val ELSE mz_precision
                  IN  Ok([compression |-> compr,
                          mz_precision |-> ToInt(mz_precision),
                          int_precision |-> ToInt(int_precision),
                          endi_enc |-> "little"])

NoMetadata == [compression |-> "none", mz_precision |-> 0, int_precision |-> 0,
               endi_enc |-> "unset"]

(***************************************************************************)
(* grabSpectraRt                                                           *)
(***************************************************************************)
\* the unit is decided node by node
grabSpectraRt_PerNode(xml_nodes) ==
    LET rt_nodes == Flatten(Map(xml_nodes, LAMBDA node : node.rt))
    IN  Map(rt_nodes, LAMBDA n : IF n.unitName = "minute" THEN n.value
                                 ELSE n.value \div 60)

\* val / 60; the recorded values of the model are multiples of 60, so the
\* float quotient is the integer one
Div60(val) == val \div 60

grabSpectraRt(xml_nodes) ==
    LET rt_nodes == Flatten(Map(xml_nodes, LAMBDA node : node.rt))
        rt_units == {rt_nodes[i].unitName : i \in 1..Len(rt_nodes)}
        rt_vals == Map(rt_nodes, LAMBDA n : n.value)
    IN  IF "minute" \notin rt_units THEN Map(rt_vals, Div60) ELSE rt_vals

(***************************************************************************)
(* grabSpectraMz, grabSpectraInt                                           *)
(***************************************************************************)
\* struct.calcsize of one element
FormatSize(fmt) == IF fmt = "d" THEN 8 ELSE 4

\* struct.unpack_from: a buffer longer than count elements is accepted
StructUnpack_From(count, fmt, buffer) ==
    IF Len(buffer) < count * FormatSize(fmt) THEN Raise("struct.error")
    ELSE Ok([k \in 1..count |->
               [fmt |-> fmt,
                bytes |-> SubSeq(buffer, (k - 1) * FormatSize(fmt) + 1,
                                 k * FormatSize(fmt))]])

\* struct.unpack("<count><fmt>", buffer): the buffer must be exactly
\* count elements long; element k is read from its own FormatSize bytes
StructUnpack(count, fmt, buffer) ==
    IF Len(buffer) # count * FormatSize(fmt) THEN Raise("struct.error")
    ELSE Ok([k \in 1..count |->
               [fmt |-> fmt,
                bytes |-> SubSeq(buffer, (k - 1) * FormatSize(fmt) + 1,
                                 k * FormatSize(fmt))]])

\* lines 233-240: raw bytes to decompressed bytes
Decompress(compression, raw_binary) ==
    IF compression = "none" THEN Ok(raw_binary)
    ELSE IF compression = "zlib" THEN Ok(raw_binary)
    ELSE IF compression = "gzip" THEN Ok(raw_binary)
    ELSE Raise("ValueError")

\* the loop body of lines 227-245 (and 257-274) for one <binary> text
DecodeBinary(binary, compression, precision, fmt) ==
    IF binary = <<>> THEN Ok(<<>>)
    ELSE
      LET decomp_binary == Decompress(compression, binary)
      IN  IF ~decomp_binary.ok THEN decomp_binary
          ELSE IF precision = 0 THEN Raise("ZeroDivisionError")
          ELSE StructUnpack(Len(decomp_binary.val) \div precision, fmt,
                            decomp_binary.val)

\* a list of results: the list of values, or the first exception
Collect(rs) ==
    IF \A i \in 1..Len(rs) : rs[i].ok THEN Ok(Map(rs, LAMBDA r : r.val))
    ELSE Raise(FirstError(rs))

grabSpectraMz(xml_nodes, metadata) ==
    LET mz_vals == Flatten(Map(xml_nodes, LAMBDA node : node.mzbin))
    IN  Collect(Map(mz_vals, LAMBDA binary :
            DecodeBinary(binary, metadata.compression, metadata.mz_precision, "d")))

grabSpectraInt(xml_nodes, metadata) ==
    LET int_vals == Flatten(Map(xml_nodes, LAMBDA node : node.intbin))
    IN  Collect(Map(int_vals, LAMBDA binary :
            DecodeBinary(binary, metadata.compression, metadata.int_precision, "f")))

(***************************************************************************)
(* grabSpectraVoltage, grabSpectraPremz                                    *)
(***************************************************************************)
\* node.xpath("//..."): a path that starts with // is evaluated from the
\* root of the node's document, whatever the node
\* a voltage is None or an int
None == <<>>

Some(v) == <<v>>

DocumentCollisionEnergy == Flatten(Map(xml_data.spectra, LAMBDA s : s.volt))

DocumentSelectedIonMz == Flatten(Map(xml_data.spectra, LAMBDA s : s.premz))

grabSpectraVoltage(xml_nodes) ==
    LET volt_nodes == Flatten(Map(xml_nodes, LAMBDA node : DocumentCollisionEnergy))
    IN  IF volt_nodes = <<>> THEN Ok(Replicate(None, Len(xml_nodes)))
        ELSE Collect(Map(volt_nodes, LAMBDA node :
                 LET value == ParseInt(node)
                 IN  IF value.ok THEN Ok(Some(value.val)) ELSE value))

grabSpectraPremz(xml_nodes) ==
    LET premz_nodes == Flatten(Map(xml_nodes, LAMBDA node : DocumentSelectedIonMz))
    IN  premz_nodes

(***************************************************************************)
(* numpy and pandas                                                        *)
(***************************************************************************)
\* np.repeat(a, repeats): repeats has one count per element, or one count
\* for all
NpRepeat(a, repeats) ==
    IF Len(repeats) = Len(a)
    THEN Ok(Flatten([i \in 1..Len(a) |-> Replicate(a[i], repeats[i])]))
    ELSE IF Len(repeats) = 1
    THEN Ok(Flatten([i \in 1..Len(a) |-> Replicate(a[i], repeats[1])]))
    ELSE Raise("ValueError")

\* np.concatenate(arrays): at least one array is needed
NpConcatenate(arrays) ==
    IF arrays = <<>> THEN Raise("ValueError") ELSE Ok(Flatten(arrays))

\* [[val] * len(mz_val) for val, mz_val in zip(vals, mz_vals)]
ZipRepeat(vals, mz_vals) ==
    [i \in 1..Min(Len(vals), Len(mz_vals)) |-> Replicate(vals[i], Len(mz_vals[i]))]

\* pd.DataFrame(columns): all columns must be of the same length
DataFrame(columns) ==
    IF \A c, d \in DOMAIN columns : Len(columns[c]) = Len(columns[d])
    THEN Ok(columns)
    ELSE Raise("ValueError")

NRows(table) == Len(table[CHOOSE c \in DOMAIN table : TRUE])

(***************************************************************************)
(* grabMzmlMS1, grabMzmlMS2, grabMzmlBPC                                   *)
(***************************************************************************)
\* //spectrum[cvParam[@name="ms level" and @value=level]]
SpectraOfLevel(doc, level) == SelectSeq(doc.spectra, LAMBDA s : s.level = level)

\* pd.DataFrame({'rt': [], 'mz': [], 'int': []})
EmptyMS1 == [rt |-> <<>>, mz |-> <<>>, int |-> <<>>]

\* pd.DataFrame() without its columns
EmptyMS2_NoColumns == [rt |-> <<>>]

\* pd.DataFrame({'rt': [], 'premz': [], 'fragmz': [], 'int': [], 'voltage': []})
EmptyMS2 == [rt |-> <<>>, premz |-> <<>>, fragmz |-> <<>>, int |-> <<>>, voltage |-> <<>>]

grabMzmlMS1(doc, metadata) ==
    LET ms1_nodes == SpectraOfLevel(doc, 1)
    IN  IF ms1_nodes = <<>> THEN Ok(EmptyMS1)
        ELSE
          LET rt_vals == grabSpectraRt(ms1_nodes)
              mz_vals == grabSpectraMz(ms1_nodes, metadata)
              int_vals == grabSpectraInt(ms1_nodes, metadata)
          IN  IF ~mz_vals.ok THEN mz_vals
              ELSE IF ~int_vals.ok THEN int_vals
              ELSE
                LET rt == NpRepeat(rt_vals, Map(mz_vals.val, Len))
                    mz == NpConcatenate(mz_vals.val)
                    int == NpConcatenate(int_vals.val)
                IN  IF ~rt.ok THEN rt
                    ELSE IF ~mz.ok THEN mz
                    ELSE IF ~int.ok THEN int
                    ELSE DataFrame([rt |-> rt.val, mz |-> mz.val, int |-> int.val])

grabMzmlMS2(doc, metadata) ==
    LET ms2_nodes == SpectraOfLevel(doc, 2)
    IN  IF ms2_nodes = <<>> THEN Ok(EmptyMS2)
        ELSE
          LET rt_vals == grabSpectraRt(ms2_nodes)
              premz_vals == grabSpectraPremz(ms2_nodes)
              voltage == grabSpectraVoltage(ms2_nodes)
              mz_vals == grabSpectraMz(ms2_nodes, metadata)
              int_vals == grabSpectraInt(ms2_nodes, metadata)
          IN  IF ~voltage.ok THEN voltage
              ELSE IF ~mz_vals.ok THEN mz_vals
              ELSE IF ~int_vals.ok THEN int_vals
              ELSE
                LET rt == NpConcatenate(ZipRepeat(rt_vals, mz_vals.val))
                    premz == NpConcatenate(ZipRepeat(premz_vals, mz_vals.val))
                    fragmz == NpConcatenate(mz_vals.val)
                    int == NpConcatenate(int_vals.val)
                    volt == NpConcatenate(ZipRepeat(voltage.val, mz_vals.val))
                IN  IF ~rt.ok THEN rt
                    ELSE IF ~premz.ok THEN premz
                    ELSE IF ~fragmz.ok THEN fragmz
                    ELSE IF ~int.ok THEN int
                    ELSE IF ~volt.ok THEN volt
                    ELSE DataFrame([rt |-> rt.val, premz |-> premz.val,
                                    fragmz |-> fragmz.val, int |-> int.val,
                                    voltage |-> volt.val])

\* the base peak intensity, whatever name is asked for
CvParam_AlwaysBpi(node, cvparam_name) == node.bpi

\* the values of the spectrum's own cvParams named cvparam_name
CvParam(node, cvparam_name) ==
    IF cvparam_name = "total ion current" THEN node.tic ELSE node.bpi

grabMzmlBPC(doc, TIC) ==
    LET cvparam_name == IF TIC = TRUE THEN "total ion current" ELSE "base peak intensity"
        ms1_nodes == SelectSeq(SpectraOfLevel(doc, 1),
                               LAMBDA s : CvParam(s, cvparam_name) # <<>>)
        rt_vals == grabSpectraRt(ms1_nodes)
        int_vals == Flatten(Map(ms1_nodes, LAMBDA node : CvParam(node, cvparam_name)))
    IN  DataFrame([rt |-> rt_vals, int |-> int_vals])

(***************************************************************************)
(* grabMzmlData, one action per step of its body                           *)
(***************************************************************************)
Put(map, name, table) ==
    [k \in DOMAIN map \cup {name} |-> IF k = name THEN table ELSE map[k]]

EmptyMap == [k \in {} |-> <<>>]

\* no exception so far; a raised one is kept with the step that raised it
NoError == [exc |-> "none", at |-> "none"]

\* one "if name in grab_what: output_data[name] = ..." block
Block(here, name, result, next) ==
    /\ pc = here
    /\ IF In(name, grab_what)
       THEN IF result.ok
            THEN /\ output_data' = Put(output_data, name, result.val)
                 /\ pc' = next
                 /\ err' = err
            ELSE /\ pc' = "raised"
                 /\ err' = [exc |-> result.exc, at |-> here]
                 /\ output_data' = output_data
       ELSE /\ pc' = next
            /\ UNCHANGED <<output_data, err>>
    /\ UNCHANGED <<xml_data, grab_what, file_metadata>>

ReadMetadata ==
    /\ pc = "metadata"
    /\ LET m == grabMzmlEncodingData(xml_data)
       IN  IF m.ok
           THEN /\ file_metadata' = m.val
                /\ pc' = "MS1"
                /\ err' = err
           ELSE /\ pc' = "raised"
                /\ err' = [exc |-> m.exc, at |-> "metadata"]
                /\ file_metadata' = file_metadata
    /\ UNCHANGED <<xml_data, grab_what, output_data>>

ReadMS1 == Block("MS1", MS1Name, grabMzmlMS1(xml_data, file_metadata), "MS2")

ReadMS2 == Block("MS2", MS2Name, grabMzmlMS2(xml_data, file_metadata), "BPC")

ReadBPC == Block("BPC", BPCName, grabMzmlBPC(xml_data, FALSE), "TIC")

ReadTIC == Block("TIC", TICName, grabMzmlBPC(xml_data, TRUE), "return")

Return ==
    /\ pc = "return"
    /\ pc' = "returned"
    /\ UNCHANGED <<xml_data, grab_what, file_metadata, output_data, err>>

Next == ReadMetadata \/ ReadMS1 \/ ReadMS2 \/ ReadBPC \/ ReadTIC \/ Return

(***************************************************************************)
(* Documents                                                               *)
(***************************************************************************)
\* the bytes of a decoded <binary>: n bytes that differ from byte to byte,
\* from spectrum to spectrum and between the two arrays of a spectrum
Bytes(i, array, n) ==
    [j \in 1..n |-> (32 * i + (IF array = "int" THEN 128 ELSE 0) + j) % 256]

\* the recorded scan start time, intensity summaries and precursor fields
\* of the i-th spectrum; each differs from spectrum to spectrum
RtValue(i) == 60 * i

BpiValue(i) == 100 + i

TicValue(i) == 200 + i

PremzValue(i) == 500 + i

VoltText(i) == <<"2", Digits[(i % 10) + 1]>>

ScanStart(i, unit) == [value |-> RtValue(i), unitName |-> unit]

\* byte width a bit-width label declares
LabelWidth(label) == IF label = Label32 THEN 4 ELSE 8

Document(spectra, chromatograms, compr, mzbits, intbits) ==
    [spectra |-> spectra, chromatograms |-> chromatograms, compr |-> compr,
     mzbits |-> mzbits, intbits |-> intbits]

\* sequences of length lo..hi over a set of per-position choices; Make(i, c)
\* builds the i-th spectrum from choice c
SeqsOf(lo, hi, choices, Make(_, _)) ==
    UNION {{[i \in 1..n |-> Make(i, f[i])] : f \in [1..n -> choices]} : n \in lo..hi}

Start(doc, what) ==
    /\ xml_data = doc
    /\ grab_what = what
    /\ pc = "metadata"
    /\ file_metadata = NoMetadata
    /\ output_data = EmptyMap
    /\ err = NoError

AllFour == ListOf(OutputNames)

(***************************************************************************)
(* Spec: whole calls, over grab_what, the kinds of spectra present and the *)
(* encoding cvParams                                                       *)
(***************************************************************************)
\* a spectrum with one peak, 64-bit m/z and 32-bit intensity
PlainSpectrum(i, c) ==
    [level |-> c.level,
     rt |-> <<ScanStart(i, "minute")>>,
     bpi |-> IF c.summary THEN <<BpiValue(i)>> ELSE <<>>,
     tic |-> IF c.summary THEN <<TicValue(i)>> ELSE <<>>,
     premz |-> IF c.level = 2 THEN <<PremzValue(i)>> ELSE <<>>,
     volt |-> IF c.level = 2 THEN <<VoltText(i)>> ELSE <<>>,
     mzbin |-> <<Bytes(i, "mz", 8)>>,
     intbin |-> <<Bytes(i, "int", 4)>>]

PlainChoices == [level : {1, 2}, summary : BOOLEAN]

BitLabels == {<<>>, <<Label64>>, <<Label32>>, <<LabelBad>>}

ComprNames == {<<>>, <<"no compression">>, <<"zlib compression">>, <<"lz4">>}

GrabWhats ==
    {ListOf(names) : names \in SUBSET OutputNames}
        \cup {StrOf(Everything), StrOf(MS1Name)}

Init ==
    \/ \E spectra \in SeqsOf(0, MaxSpectra, PlainChoices, PlainSpectrum),
          chromatograms \in {0, 1}, intbits \in {<<>>, <<Label32>>},
          what \in GrabWhats :
         Start(Document(spectra, chromatograms, <<"no compression">>, <<Label64>>,
                        intbits), what)
    \/ \E spectra \in SeqsOf(0, 1, PlainChoices, PlainSpectrum),
          compr \in ComprNames, mzbits \in BitLabels, intbits \in BitLabels :
         Start(Document(spectra, 1, compr, mzbits, intbits), AllFour)

Spec == Init /\ [][Next]_vars

(***************************************************************************)
(* What the claims speak of, said of the document itself                   *)
(***************************************************************************)
\* the step of grabMzmlData that extracts each output
StepOf(name) ==
    IF name = MS1Name THEN "MS1"
    ELSE IF name = MS2Name THEN "MS2"
    ELSE IF name = BPCName THEN "BPC"
    ELSE "TIC"

ColumnsOf(name) ==
    IF name = MS1Name THEN {"rt", "mz", "int"}
    ELSE IF name = MS2Name THEN {"rt", "premz", "fragmz", "int", "voltage"}
    ELSE {"rt", "int"}

\* the spectrum matches the selection predicate of the output
Matches(s, name) ==
    IF name = MS1Name THEN s.level = 1
    ELSE IF name = MS2Name THEN s.level = 2
    ELSE IF name = BPCName THEN s.level = 1 /\ s.bpi # <<>>
    ELSE s.level = 1 /\ s.tic # <<>>

NoMatch(name) == \A i \in 1..Len(xml_data.spectra) : ~Matches(xml_data.spectra[i], name)

\* the caller asked for the output by naming it in a list
Requested(name) == grab_what.kind = "list" /\ name \in grab_what.items

Steps == <<"metadata", "MS1", "MS2", "BPC", "TIC", "return", "returned">>

StepIndex(step) == CHOOSE i \in 1..Len(Steps) : Steps[i] = step

\* where the call is, or was when it raised
Position == IF pc = "raised" THEN err.at ELSE pc

\* the step has been run to its end without raising
Passed(step) == StepIndex(Position) > StepIndex(step)

\* the step has been run: it ended or it raised
Ran(step) == Passed(step) \/ (pc = "raised" /\ err.at = step)

IsEmptyTable(table, columns) ==
    /\ DOMAIN table = columns
    /\ \A c \in DOMAIN table : table[c] = <<>>

(***************************************************************************)
(* Claims about whole calls (Spec)                                         *)
(***************************************************************************)
\* C4, as claimed: whenever a requested output K has no matching spectrum in
\* the document, the finished call has returned a mapping that binds K to a
\* table with zero rows and K's full column set.
C4_AlwaysReturnsEmptyTable ==
    \A name \in OutputNames :
        (pc \in {"returned", "raised"} /\ Requested(name) /\ NoMatch(name)) =>
            /\ pc = "returned"
            /\ name \in DOMAIN output_data
            /\ IsEmptyTable(output_data[name], ColumnsOf(name))

\* C4, amended: for a requested output K with no matching spectrum, K's own
\* extraction step never raises, and once that step has run the mapping
\* binds K to a table with zero rows and K's full column set (so every call
\* that returns, returns it); the call can still raise in the metadata step
\* or in the step of another requested output.
C4_EmptyTableWhenNoMatch ==
    \A name \in OutputNames :
        (Requested(name) /\ NoMatch(name)) =>
            /\ ~(pc = "raised" /\ err.at = StepOf(name))
            /\ Passed(StepOf(name)) =>
                 /\ name \in DOMAIN output_data
                 /\ IsEmptyTable(output_data[name], ColumnsOf(name))

\* C4 witness: a call on a document that has level-1 spectra and no level-2
\* spectrum returned all four outputs, MS2 with zero rows.
C4_Witness ==
    /\ pc = "returned"
    /\ grab_what = AllFour
    /\ xml_data.spectra # <<>>
    /\ NoMatch(MS2Name)
    /\ ~NoMatch(MS1Name)
    /\ IsEmptyTable(output_data[MS2Name], ColumnsOf(MS2Name))
    /\ NRows(output_data[MS1Name]) > 0

\* C7: a call with grab_what = "everything" that returns, returns the
\* mapping with the four keys MS1, MS2, BPC and TIC.
C7_EverythingExtractsAll ==
    (pc = "returned" /\ grab_what = StrOf(Everything)) =>
        DOMAIN output_data = OutputNames

\* a bit-width label whose text before the first "-" is an integer
Parsable(labels) == labels # <<>> /\ labels[1] \in {Label64, Label32}

Unparsable(labels) == labels # <<>> /\ labels[1] = LabelBad

\* C8: when one of the two bit-width labels is present and unparsable and
\* the other parses, metadata extraction does not raise and both widths
\* equal the parsable label's width.
C8_FallsBackToOtherWidth ==
    \A w \in {4, 8} :
        ( /\ Ran("metadata")
          /\ xml_data.compr # <<>>
          /\ xml_data.compr[1] \in DOMAIN ComprTable
          /\ \/ Unparsable(xml_data.mzbits) /\ Parsable(xml_data.intbits)
                  /\ LabelWidth(xml_data.intbits[1]) = w
             \/ Parsable(xml_data.mzbits) /\ Unparsable(xml_data.intbits)
                  /\ LabelWidth(xml_data.mzbits[1]) = w ) =>
            /\ Passed("metadata")
            /\ file_metadata.mz_precision = w
            /\ file_metadata.int_precision = w

(***************************************************************************)
(* SpecDecode: one spectrum, binary arrays of every byte length            *)
(***************************************************************************)
BlobSpectrum(i, c) ==
    [level |-> c.level,
     rt |-> <<ScanStart(i, "minute")>>,
     bpi |-> <<BpiValue(i)>>,
     tic |-> <<TicValue(i)>>,
     premz |-> IF c.level = 2 THEN <<PremzValue(i)>> ELSE <<>>,
     volt |-> IF c.level = 2 THEN <<VoltText(i)>> ELSE <<>>,
     mzbin |-> <<Bytes(i, "mz", c.mzlen)>>,
     intbin |-> <<Bytes(i, "int", c.intlen)>>]

BlobChoices == [level : {1, 2}, mzlen : 0..MaxBytes, intlen : 0..MaxBytes]

InitDecode ==
    \E spectra \in SeqsOf(1, 1, BlobChoices, BlobSpectrum),
       mzbits \in {<<Label64>>, <<Label32>>},
       intbits \in {<<>>, <<Label32>>, <<Label64>>} :
      Start(Document(spectra, 0, <<"no compression">>, mzbits, intbits), AllFour)

SpecDecode == InitDecode /\ [][Next]_vars

(***************************************************************************)
(* Claims about the binary decoder (SpecDecode)                            *)
(***************************************************************************)
\* the element widths the document declares: the m/z label's, and the
\* intensity label's or, without one, the m/z label's
DeclaredMzWidth == LabelWidth(xml_data.mzbits[1])

DeclaredIntWidth ==
    IF xml_data.intbits = <<>> THEN DeclaredMzWidth ELSE LabelWidth(xml_data.intbits[1])

\* the leading Len(bytes) \div width values of an array read at a width:
\* double precision at 8 bytes, single precision at 4
Peaks(bytes, width) ==
    [k \in 1..(Len(bytes) \div width) |->
        [fmt |-> IF width = 8 THEN "d" ELSE "f",
         bytes |-> SubSeq(bytes, (k - 1) * width + 1, k * width)]]

\* the document's one spectrum, the step that decodes it and the column
\* its m/z values go to
TheSpectrum == xml_data.spectra[1]

DecodeStep == IF TheSpectrum.level = 1 THEN "MS1" ELSE "MS2"

DecodedName == IF TheSpectrum.level = 1 THEN MS1Name ELSE MS2Name

MzColumn == IF TheSpectrum.level = 1 THEN "mz" ELSE "fragmz"

MzBytes == TheSpectrum.mzbin[1]

IntBytes == TheSpectrum.intbin[1]

StructErrorRaised ==
    pc = "raised" /\ err.at = DecodeStep /\ err.exc = "struct.error"

\* the step returned the table of the two arrays read at the declared
\* widths, cut to whole elements
DecodedAtDeclaredWidths ==
    /\ Passed(DecodeStep)
    /\ output_data[DecodedName][MzColumn] = Peaks(MzBytes, DeclaredMzWidth)
    /\ output_data[DecodedName].int = Peaks(IntBytes, DeclaredIntWidth)

SameCount ==
    Len(MzBytes) \div DeclaredMzWidth = Len(IntBytes) \div DeclaredIntWidth

\* C2: for every declared width of either array, decoding non-empty arrays
\* whose byte lengths are multiples of their widths raises no error and
\* yields length / width values per array, each read at the array's own
\* declared width.
C2_DecodesAtResolvedWidth ==
    ( /\ Ran(DecodeStep)
      /\ MzBytes # <<>> /\ Len(MzBytes) % DeclaredMzWidth = 0
      /\ IntBytes # <<>> /\ Len(IntBytes) % DeclaredIntWidth = 0 ) =>
        /\ ~StructErrorRaised
        /\ SameCount => DecodedAtDeclaredWidths

\* C9, as claimed: in a document declaring 64-bit m/z and 32-bit intensity,
\* an array whose byte length is not a multiple of its width is decoded
\* without an error to its leading whole elements.
C9_SilentlyTruncates ==
    ( /\ Ran(DecodeStep)
      /\ DeclaredMzWidth = 8 /\ DeclaredIntWidth = 4
      /\ \/ Len(MzBytes) % DeclaredMzWidth # 0
         \/ Len(IntBytes) % DeclaredIntWidth # 0 ) =>
        /\ ~StructErrorRaised
        /\ SameCount => DecodedAtDeclaredWidths

\* C9, amended: when the byte length of the m/z or of the intensity array is
\* not a multiple of its declared width (4 or 8), decoding raises
\* struct.error and the step returns no table: nothing is truncated.
C9_RaisesOnRemainder ==
    ( /\ Ran(DecodeStep)
      /\ \/ Len(MzBytes) % DeclaredMzWidth # 0
         \/ Len(IntBytes) % DeclaredIntWidth # 0 ) =>
        /\ StructErrorRaised
        /\ DecodedName \notin DOMAIN output_data

\* C9 witnesses: a 12-byte m/z array at width 8 next to a whole intensity
\* array, and a 6-byte intensity array at width 4 next to a whole m/z array,
\* each ending in struct.error.
C9_Witness ==
    /\ StructErrorRaised
    /\ DeclaredMzWidth = 8 /\ DeclaredIntWidth = 4
    /\ \/ Len(MzBytes) = 12 /\ Len(IntBytes) = 4
       \/ Len(MzBytes) = 8 /\ Len(IntBytes) = 6

(***************************************************************************)
(* SpecChrom: chromatogram extraction over scan start times with and       *)
(* without the unit "minute", and spectra with and without the summaries   *)
(***************************************************************************)
ChromSpectrum(i, c) ==
    [level |-> c.level,
     rt |-> IF c.unit = "absent" THEN <<>> ELSE <<ScanStart(i, c.unit)>>,
     bpi |-> IF c.bpi THEN <<BpiValue(i)>> ELSE <<>>,
     tic |-> IF c.tic THEN <<TicValue(i)>> ELSE <<>>,
     premz |-> IF c.level = 2 THEN <<PremzValue(i)>> ELSE <<>>,
     volt |-> IF c.level = 2 THEN <<VoltText(i)>> ELSE <<>>,
     mzbin |-> <<Bytes(i, "mz", 8)>>,
     intbin |-> <<Bytes(i, "int", 4)>>]

\* a level-2 spectrum is selected by neither chromatogram: it keeps both
\* summaries
ChromChoices ==
    {c \in [level : {1, 2}, unit : {"absent", "minute", "second"},
            bpi : BOOLEAN, tic : BOOLEAN] : c.level = 2 => (c.bpi /\ c.tic)}

InitChrom ==
    \E spectra \in SeqsOf(0, MaxSpectra, ChromChoices, ChromSpectrum),
       names \in {{BPCName, TICName}, OutputNames} :
      Start(Document(spectra, 1, <<"no compression">>, <<Label64>>, <<Label32>>),
            ListOf(names))

SpecChrom == InitChrom /\ [][Next]_vars

(***************************************************************************)
(* Claims about grabSpectraRt and grabMzmlBPC (SpecChrom)                  *)
(***************************************************************************)
\* the spectra an output selects, in document order
Selected(name) == SelectSeq(xml_data.spectra, LAMBDA s : Matches(s, name))

\* one scan start time in each selected spectrum
OneScanStartEach(name) ==
    \A i \in 1..Len(Selected(name)) : Len(Selected(name)[i].rt) = 1

Chromatograms == {BPCName, TICName}

\* the spectrum's own value of the field a chromatogram reads
FieldValue(s, name) == IF name = BPCName THEN s.bpi[1] ELSE s.tic[1]

\* C5: the retention times of one call of grabSpectraRt, here the rt column
\* of a chromatogram over spectra with one scan start time each, are in the
\* order of the spectra and all converted alike: recorded value / 60 when no
\* scan start time of the batch has the unit "minute", the recorded value
\* when at least one has.
C5_BatchWideUnitDecision ==
    \A name \in Chromatograms :
        (Requested(name) /\ Passed(StepOf(name)) /\ OneScanStartEach(name)) =>
            LET batch == Selected(name)
                rt == output_data[name].rt
                minute == \E i \in 1..Len(batch) : batch[i].rt[1].unitName = "minute"
            IN  /\ Len(rt) = Len(batch)
                /\ \A i \in 1..Len(batch) :
                     IF minute THEN rt[i] = batch[i].rt[1].value
                     ELSE rt[i] * 60 = batch[i].rt[1].value

\* C5 witnesses: a batch of two spectra, the first recorded in seconds and
\* the second in minutes, returned unchanged (60, 120); and a batch recorded
\* in seconds only, 120 returned as 2.
C5_Witness ==
    /\ Requested(BPCName) /\ Passed("BPC")
    /\ Len(Selected(BPCName)) = 2
    /\ \/ /\ Selected(BPCName)[1].rt = <<[value |-> 60, unitName |-> "second"]>>
          /\ Selected(BPCName)[2].rt = <<[value |-> 120, unitName |-> "minute"]>>
          /\ output_data[BPCName].rt = <<60, 120>>
       \/ /\ Selected(BPCName)[2].rt = <<[value |-> 120, unitName |-> "second"]>>
          /\ output_data[BPCName].rt = <<1, 2>>

\* the retention time, in minutes as grabSpectraRt decides them for a batch,
\* of a spectrum with one scan start time
RetentionTime(s, batch) ==
    IF \E i \in 1..Len(batch) : batch[i].rt[1].unitName = "minute"
    THEN s.rt[1].value
    ELSE s.rt[1].value \div 60

PeakSpectrum(i, c, mzwidth, intwidth) ==
    [level |-> c.level,
     rt |-> <<ScanStart(i, "minute")>>,
     bpi |-> <<BpiValue(i)>>,
     tic |-> <<TicValue(i)>>,
     premz |-> IF c.level = 2 THEN <<PremzValue(i)>> ELSE <<>>,
     volt |-> IF c.level = 2 THEN <<VoltText(i)>> ELSE <<>>,
     mzbin |-> <<Bytes(i, "mz", c.mzcount * mzwidth)>>,
     intbin |-> <<Bytes(i, "int", c.intcount * intwidth)>>]

PeakChoices == [level : {1, 2}, mzcount : 0..MaxPeaks, intcount : 0..MaxPeaks]

InitMS1 ==
    \E mzbits \in {<<Label64>>, <<Label32>>},
       intbits \in {<<>>, <<Label32>>, <<Label64>>} :
      \E spectra \in SeqsOf(1, MaxSpectra, PeakChoices,
                            LAMBDA i, c : PeakSpectrum(i, c, LabelWidth(mzbits[1]),
                                IF intbits = <<>> THEN LabelWidth(mzbits[1])
                                ELSE LabelWidth(intbits[1]))) :
        Start(Document(spectra, 0, <<"zlib compression">>, mzbits, intbits), AllFour)

SpecMS1 == InitMS1 /\ [][Next]_vars

(***************************************************************************)
(* Claims about grabMzmlMS1 (SpecMS1)                                      *)
(***************************************************************************)
\* the number of values an array holds at the width the document declares
MzCount(s) == Len(s.mzbin[1]) \div DeclaredMzWidth

IntCount(s) == Len(s.intbin[1]) \div DeclaredIntWidth

\* C1: when every level-1 spectrum s1..sn carries one scan start time, one
\* m/z and one intensity array of equal length ki, grabMzmlMS1 returns a
\* table of k1+...+kn rows: rt is each spectrum's retention time repeated ki
\* times, mz and int are the arrays concatenated in document order; a
\* spectrum with ki = 0 contributes no row.
C1_BroadcastAndConcatenate ==
    LET ms1 == Selected(MS1Name)
    IN  ( /\ Ran("MS1")
          /\ \A i \in 1..Len(ms1) : MzCount(ms1[i]) = IntCount(ms1[i]) ) =>
            /\ Passed("MS1")
            /\ NRows(output_data[MS1Name]) = SumSeq([i \in 1..Len(ms1) |-> MzCount(ms1[i])])
            /\ output_data[MS1Name].rt =
                 Flatten([i \in 1..Len(ms1) |->
                            Replicate(RetentionTime(ms1[i], ms1), MzCount(ms1[i]))])
            /\ output_data[MS1Name].mz =
                 Flatten([i \in 1..Len(ms1) |-> Peaks(ms1[i].mzbin[1], DeclaredMzWidth)])
            /\ output_data[MS1Name].int =
                 Flatten([i \in 1..Len(ms1) |-> Peaks(ms1[i].intbin[1], DeclaredIntWidth)])

\* C10: when the decoded m/z and intensity arrays of some level-1 spectrum
\* differ in length (the document declares 64-bit m/z and 32-bit intensity,
\* which is what the decoders read), grabMzmlMS1 raises and returns no
\* table, so that no row pairs values of two spectra.
C10_FailsOnLengthMismatch ==
    LET ms1 == Selected(MS1Name)
    IN  ( /\ Ran("MS1")
          /\ DeclaredMzWidth = 8 /\ DeclaredIntWidth = 4
          /\ \E i \in 1..Len(ms1) : MzCount(ms1[i]) # IntCount(ms1[i]) ) =>
            /\ pc = "raised"
            /\ err.at = "MS1"

(***************************************************************************)
(* SpecMS2: MS2 extraction over documents whose spectra of level 2 and 3   *)
(* carry a precursor, with or without a collision energy                   *)
(***************************************************************************)
FragmentSpectrum(i, c) ==
    [level |-> c.level,
     rt |-> <<ScanStart(i, "minute")>>,
     bpi |-> <<BpiValue(i)>>,
     tic |-> <<TicValue(i)>>,
     premz |-> IF c.level >= 2 THEN <<PremzValue(i)>> ELSE <<>>,
     volt |-> IF c.level >= 2 /\ c.energy THEN <<VoltText(i)>> ELSE <<>>,
     mzbin |-> <<Bytes(i, "mz", c.count * 8)>>,
     intbin |-> <<Bytes(i, "int", c.count * 4)>>]

FragmentChoices == [level : {1, 2, 3}, energy : BOOLEAN, count : 0..MaxPeaks]

InitMS2 ==
    \E spectra \in SeqsOf(1, MaxSpectra, FragmentChoices, FragmentSpectrum) :
      Start(Document(spectra, 0, <<"zlib compression">>, <<Label64>>, <<Label32>>),
            AllFour)

SpecMS2 == InitMS2 /\ [][Next]_vars

(***************************************************************************)
(* Claims about grabMzmlMS2 (SpecMS2)                                      *)
(***************************************************************************)
\* the spectrum's own collision voltage: its collision energy, None without
OwnVoltage(s) == IF s.volt = <<>> THEN None ELSE Some(DecimalValue(s.volt[1]))

\* C3: in the table grabMzmlMS2 returns, every fragment row of a level-2
\* spectrum carries that spectrum's own precursor m/z and its own collision
\* voltage, whichever other spectra carry precursor fields and whichever
\* level-2 spectra lack a collision energy.
C3_OwnPrecursorAndVoltage ==
    LET ms2 == Selected(MS2Name)
    IN  Ran("MS2") =>
          /\ Passed("MS2")
          /\ output_data[MS2Name].premz =
               Flatten([i \in 1..Len(ms2) |-> Replicate(ms2[i].premz[1], MzCount(ms2[i]))])
          /\ output_data[MS2Name].voltage =
               Flatten([i \in 1..Len(ms2) |-> Replicate(OwnVoltage(ms2[i]), MzCount(ms2[i]))])

====
